---- MODULE Spec2Model ----
(***************************************************************************)
(* Model of mbgl/style/conversion/function.cpp: the conversion of legacy   *)
(* stop-based style functions (camera, source, composite) into expression  *)
(* trees.  One conversion call is one behaviour: Init draws the target     *)
(* type and the configuration value, the start action of the entry point   *)
(* runs the checks up to the stop loop, each loop iteration is one step,   *)
(* and the finishing action builds the expression.                         *)
(*                                                                         *)
(* Numbers are the floats toNumber hands out, written fixed-point with one  *)
(* decimal digit: 15 stands for 1.5.                                       *)
(* std::map is a sequence of <<key, value>> pairs kept in key order.       *)
(* optional<T> is a sequence of length 0 (empty) or 1.                     *)
(***************************************************************************)
EXTENDS Integers, Sequences, FiniteSets, TLC

VARIABLES
    entry,      \* which entry point was called: "camera", "source", "composite"
    type,       \* type::Type type, the target type
    value,      \* const Convertible& value, the configuration
    pc,         \* position of the call
    i,          \* the loop index of the stop loop
    shape,      \* the FunctionType the call dispatched on
    keyT,       \* the key type T of convertBranches<T> / composite<T>
    stops,      \* the std::map under construction
    base,       \* optional<double> read by convertBase
    property,   \* optional<std::string> property name
    error,      \* Error& error: empty until written, then the message
    result      \* the optional<std::unique_ptr<Expression>> returned

vars == <<entry, type, value, pc, i, shape, keyT, stops, base, property, error, result>>

----------------------------------------------------------------------------
(* Bounds of the model *)

\* longest "stops" array drawn
MaxStops == 3

----------------------------------------------------------------------------
(* optional<T> *)

None == <<>>
Some(x) == <<x>>
Has(o) == Len(o) = 1
Get(o) == o[1]

----------------------------------------------------------------------------
(* Convertible: the semi-structured configuration value and its accessors *)

Null == [k |-> "null"]
B(b) == [k |-> "bool", v |-> b]
N(n) == [k |-> "num", v |-> n]
S(s) == [k |-> "str", v |-> s]
A(seq) == [k |-> "arr", v |-> seq]
O(members) == [k |-> "obj", v |-> members]

isObject(x) == x.k = "obj"
isArray(x) == x.k = "arr"
arrayLength(x) == Len(x.v)
\* arrayMember takes the 0-based index of the code
arrayMember(x, n) == x.v[n + 1]
objectMember(x, name) == IF name \in DOMAIN x.v THEN Some(x.v[name]) ELSE None
toBool(x) == IF x.k = "bool" THEN Some(x.v) ELSE None
toNumber(x) == IF x.k = "num" THEN Some(x.v) ELSE None
toString(x) == IF x.k = "str" THEN Some(x.v) ELSE None

----------------------------------------------------------------------------
(* Results of a fallible conversion: a value, or an error message written *)
(* to the Error sink, or an assert(false) that marks an unreachable arm.  *)

Ok(x) == [ok |-> TRUE, val |-> x]
Err(msg) == [ok |-> FALSE, assert |-> FALSE, err |-> msg]
Unreachable == [ok |-> FALSE, assert |-> TRUE, err |-> ""]

----------------------------------------------------------------------------
(* type::Type, the target value-type descriptors *)

NumberT == [t |-> "Number"]
BooleanT == [t |-> "Boolean"]
StringT == [t |-> "String"]
ColorT == [t |-> "Color"]
ValueT == [t |-> "Value"]
\* type::Array: itemType and the optional fixed length N
ArrayT(item, n) == [t |-> "Array", itemType |-> item, N |-> n]

interpolatable(ty) ==
    CASE ty.t = "Number" -> TRUE
      [] ty.t = "Color" -> TRUE
      [] ty.t = "Array" -> Has(ty.N) /\ ty.itemType = NumberT
      [] OTHER -> FALSE

\* faulty variant: "exponential" is taken without asking whether the type interpolates
functionType_ExponentialUnchecked(ty, x) ==
    LET typeValue == objectMember(x, "type") IN
    IF ~Has(typeValue)
    THEN (IF interpolatable(ty) THEN "Exponential" ELSE "Interval")
    ELSE LET string == toString(Get(typeValue)) IN
         IF ~Has(string) THEN "Invalid"
         ELSE CASE Get(string) = "interval" -> "Interval"
                [] Get(string) = "exponential" -> "Exponential"
                [] Get(string) = "categorical" -> "Categorical"
                [] Get(string) = "identity" -> "Identity"
                [] OTHER -> "Invalid"

functionType(ty, x) ==
    LET typeValue == objectMember(x, "type") IN
    IF ~Has(typeValue)
    THEN (IF interpolatable(ty) THEN "Exponential" ELSE "Interval")
    ELSE LET string == toString(Get(typeValue)) IN
         IF ~Has(string) THEN "Invalid"
         ELSE CASE Get(string) = "interval" -> "Interval"
                [] Get(string) = "exponential" /\ interpolatable(ty) -> "Exponential"
                [] Get(string) = "categorical" -> "Categorical"
                [] Get(string) = "identity" -> "Identity"
                [] OTHER -> "Invalid"

----------------------------------------------------------------------------
(* Scalar converters *)

\* Converter<float>
convertFloat(x) ==
    IF Has(toNumber(x)) THEN Ok(Get(toNumber(x))) ELSE Err("value must be a number")

\* Converter<bool>
convertBool(x) ==
    IF Has(toBool(x)) THEN Ok(Get(toBool(x))) ELSE Err("value must be a boolean")

\* Converter<std::string>
convertString(x) ==
    IF Has(toString(x)) THEN Ok(Get(toString(x))) ELSE Err("value must be a string")

\* the colour names the colour parser accepts
ValidColors == {"red", "blue"}

\* Converter<Color>
convertColor(x) ==
    IF ~Has(toString(x)) THEN Err("value must be a string")
    ELSE IF Get(toString(x)) \notin ValidColors THEN Err("value must be a valid color")
    ELSE Ok([k |-> "color", v |-> Get(toString(x))])

\* float to int64_t: the fraction is discarded, rounding toward zero
Truncate(n) == IF n >= 0 THEN n \div 10 ELSE -((-n) \div 10)

\* Converter<double>: the float widened, the value kept
convertDouble(x) == convertFloat(x)

\* faulty variant: the float is kept as it is, fraction and all
convertInt64_KeepsFraction(x) == convertFloat(x)

\* Converter<int64_t>: the float truncated, never checked to be integral
convertInt64(x) ==
    LET converted == convertFloat(x) IN
    IF ~converted.ok THEN converted ELSE Ok(Truncate(converted.val))

\* convert<T>(value, error) for the key type T of a stop
convertKey(T, x) ==
    CASE T = "bool" -> convertBool(x)
      [] T = "int64" -> convertInt64(x)
      [] T = "double" -> convertDouble(x)
      [] T = "float" -> convertFloat(x)
      [] T = "string" -> convertString(x)

----------------------------------------------------------------------------
(* Expression nodes *)

literal(x) == [e |-> "literal", v |-> x]
zoom == [e |-> "zoom"]
get(x) == [e |-> "get", arg |-> x]
number(x) == [e |-> "number", arg |-> x]
string(x) == [e |-> "string", arg |-> x]
boolean(x) == [e |-> "boolean", arg |-> x]
toColor(x) == [e |-> "to-color", arg |-> x]
errorExpr(msg) == [e |-> "error", message |-> msg]
ArrayAssertion(ty, x) == [e |-> "array", type |-> ty, arg |-> x]
exponential(b) == [name |-> "exponential", base |-> b]
linear == [name |-> "linear"]

\* elements i..n-1 of a raw array, each coerced by toNumber / toString
RECURSIVE arrayItems(_, _, _)
arrayItems(coerce, x, n) ==
    IF n = arrayLength(x) THEN Some(<<>>)
    ELSE LET item == IF coerce = "Number" THEN toNumber(arrayMember(x, n))
                     ELSE toString(arrayMember(x, n))
             rest == arrayItems(coerce, x, n + 1)
         IN IF ~Has(item) \/ ~Has(rest) THEN None
            ELSE Some(<<(IF coerce = "Number" THEN N(Get(item)) ELSE S(Get(item)))>>
                      \o Get(rest))

convertLiteral(ty, x) ==
    CASE ty.t = "Number" ->
            LET r == convertFloat(x) IN IF r.ok THEN Ok(literal(N(r.val))) ELSE r
      [] ty.t = "Boolean" ->
            LET r == convertBool(x) IN IF r.ok THEN Ok(literal(B(r.val))) ELSE r
      [] ty.t = "String" ->
            LET r == convertString(x) IN IF r.ok THEN Ok(literal(S(r.val))) ELSE r
      [] ty.t = "Color" ->
            LET r == convertColor(x) IN IF r.ok THEN Ok(literal(r.val)) ELSE r
      [] ty.t = "Array" ->
            IF ~isArray(x) THEN Err("value must be an array")
            ELSE IF Has(ty.N) /\ arrayLength(x) # Get(ty.N)
            THEN Err("value must be an array of length " \o ToString(Get(ty.N)))
            ELSE IF ty.itemType = NumberT
            THEN LET items == arrayItems("Number", x, 0) IN
                 IF Has(items) THEN Ok(literal(A(Get(items))))
                 ELSE Err("value must be an array of numbers")
            ELSE IF ty.itemType = StringT
            THEN LET items == arrayItems("String", x, 0) IN
                 IF Has(items) THEN Ok(literal(A(Get(items))))
                 ELSE Err("value must be an array of strings")
            ELSE Unreachable
      [] OTHER -> Unreachable

----------------------------------------------------------------------------
(* std::map<T, ...>: a sequence of <<key, value>> in ascending key order *)

\* the order of std::string keys among the strings drawn
StrOrder == <<"a", "b", "p", "x">>
StrRank(s) == CHOOSE n \in 1..Len(StrOrder) : StrOrder[n] = s

\* std::less<T>
KeyLess(T, a, b) ==
    CASE T = "bool" -> (a = FALSE /\ b = TRUE)
      [] T = "string" -> StrRank(a) < StrRank(b)
      [] OTHER -> a < b

MapKeys(m) == {m[n][1] : n \in 1..Len(m)}
MapHas(m, key) == \E n \in 1..Len(m) : m[n][1] = key
MapAt(m, key) == m[CHOOSE n \in 1..Len(m) : m[n][1] = key][2]

\* insertion at the key's place in the order
MapInsert(T, m, key, x) ==
    LET p == Cardinality({n \in 1..Len(m) : KeyLess(T, m[n][1], key)}) IN
    SubSeq(m, 1, p) \o <<<<key, x>>>> \o SubSeq(m, p + 1, Len(m))

\* faulty variant: the entry of an existing key is overwritten
Emplace_Overwrite(T, m, key, x) ==
    IF MapHas(m, key)
    THEN [n \in 1..Len(m) |-> IF m[n][1] = key THEN <<key, x>> ELSE m[n]]
    ELSE MapInsert(T, m, key, x)

\* faulty variant: a new entry goes to the end, whatever its key
Emplace_Append(T, m, key, x) ==
    IF MapHas(m, key) THEN m ELSE Append(m, <<key, x>>)

\* std::map::emplace: nothing changes when the key is present
Emplace(T, m, key, x) ==
    IF MapHas(m, key) THEN m ELSE MapInsert(T, m, key, x)

\* faulty variant: the zoom is ignored once a bucket exists
NestedEmplace_IgnoresZoom(T, m, z, d, r) ==
    IF Len(m) = 0 THEN <<<<z, Emplace(T, <<>>, d, r)>>>>
    ELSE [n \in 1..Len(m) |->
            IF n = 1 THEN <<m[n][1], Emplace(T, m[n][2], d, r)>> ELSE m[n]]

\* map[z].emplace(d, r) on std::map<float, std::map<T, ...>>
NestedEmplace(T, m, z, d, r) ==
    LET m1 == IF MapHas(m, z) THEN m ELSE MapInsert("float", m, z, <<>>) IN
    [n \in 1..Len(m1) |->
        IF m1[n][1] = z THEN <<z, Emplace(T, m1[n][2], d, r)>> ELSE m1[n]]

----------------------------------------------------------------------------
(* Expression builders of function.cpp *)

step(ty, input, m) == [e |-> "step", type |-> ty, input |-> input, stops |-> m]

\* createInterpolate refuses a type that cannot be interpolated
createInterpolate(ty, interpolator, input, m) ==
    IF ty.t \in {"Number", "Color"}
       \/ (ty.t = "Array" /\ ty.itemType = NumberT /\ Has(ty.N))
    THEN Ok([e |-> "interpolate", type |-> ty, interpolator |-> interpolator,
             input |-> input, stops |-> m])
    ELSE Err("Type is not interpolatable.")

interpolate(ty, interpolator, input, m) ==
    LET r == createInterpolate(ty, interpolator, input, m) IN
    IF r.ok THEN r ELSE Unreachable

\* the std::map moved into the std::unordered_map of Match<T>
convertedBranches(branches) == [key \in MapKeys(branches) |-> MapAt(branches, key)]

\* faulty variant: the false entry is dropped, the default branch is always the fallback
categoricalBool_NoFalseCase(ty, prop, branches) ==
    LET trueCase == IF MapHas(branches, TRUE) THEN MapAt(branches, TRUE)
                    ELSE errorExpr("replaced with default")
    IN [e |-> "case", type |-> ty,
        branches |-> << <<get(literal(S(prop))), trueCase>> >>,
        otherwise |-> errorExpr("replaced with default")]

\* categorical<bool>
categoricalBool(ty, prop, branches) ==
    LET trueCase == IF MapHas(branches, TRUE) THEN MapAt(branches, TRUE)
                    ELSE errorExpr("replaced with default")
        falseCase == IF MapHas(branches, FALSE) THEN MapAt(branches, FALSE)
                     ELSE errorExpr("replaced with default")
    IN [e |-> "case", type |-> ty,
        branches |-> << <<get(literal(S(prop))), trueCase>> >>,
        otherwise |-> falseCase]

\* categorical<T>
categorical(T, ty, prop, branches) ==
    IF T = "bool" THEN categoricalBool(ty, prop, branches)
    ELSE [e |-> "match", type |-> ty, keyType |-> T,
          input |-> get(literal(S(prop))),
          branches |-> convertedBranches(branches),
          otherwise |-> errorExpr("replaced with default")]

\* faulty variant: the "base" member is never read, the default stands
convertBase_MemberUnread(x) == Ok(10)

convertBase(x) ==
    LET baseValue == objectMember(x, "base") IN
    IF ~Has(baseValue) THEN Ok(10)
    ELSE IF ~Has(toNumber(Get(baseValue))) THEN Err("function base must be a number")
    ELSE Ok(Get(toNumber(Get(baseValue))))

\* the checks every stop parser makes of the "stops" member before its loop
stopsHeader(x) ==
    LET stopsValue == objectMember(x, "stops") IN
    IF ~Has(stopsValue) THEN Err("function value must specify stops")
    ELSE IF ~isArray(Get(stopsValue)) THEN Err("function stops must be an array")
    ELSE IF arrayLength(Get(stopsValue)) = 0 THEN Err("function must have at least one stop")
    ELSE Ok(Get(stopsValue))

\* the checks made of a stop that must be a two-element array
stopShape(stopValue) ==
    IF ~isArray(stopValue) THEN Err("function stop must be an array")
    ELSE IF arrayLength(stopValue) # 2 THEN Err("function stop must have two elements")
    ELSE Ok(stopValue)

\* one iteration of the loop of convertStops / convertBranches<T>, up to the emplace
convertStop(T, ty, stopValue) ==
    LET sh == stopShape(stopValue) IN
    IF ~sh.ok THEN sh
    ELSE LET t == convertKey(T, arrayMember(stopValue, 0)) IN
         IF ~t.ok THEN t
         ELSE LET ex == convertLiteral(ty, arrayMember(stopValue, 1)) IN
              IF ~ex.ok THEN ex
              ELSE Ok(<<t.val, ex.val>>)

\* faulty variant: only the truth of the first key selects the boolean domain
inferDomain_TestsValue(x) ==
    IF Has(toBool(x)) /\ Get(toBool(x)) THEN "bool"
    ELSE IF Has(toNumber(x)) THEN "number"
    ELSE IF Has(toString(x)) THEN "string"
    ELSE "none"

\* the domain of a first stop key or "value": boolean, then number, then string
inferDomain(x) ==
    IF Has(toBool(x)) THEN "bool"
    ELSE IF Has(toNumber(x)) THEN "number"
    ELSE IF Has(toString(x)) THEN "string"
    ELSE "none"

\* convertCategoricalFunction up to its call of convertBranches<T>: the key type
categoricalKeyType(x) ==
    LET h == stopsHeader(x) IN
    IF ~h.ok THEN h
    ELSE LET first == arrayMember(h.val, 0)
             sh == stopShape(first)
         IN IF ~sh.ok THEN sh
            ELSE LET d == inferDomain(arrayMember(first, 0)) IN
                 CASE d = "bool" -> Ok("bool")
                   [] d = "number" -> Ok("int64")
                   [] d = "string" -> Ok("string")
                   [] OTHER -> Err("stop domain value must be a number, string, or boolean")

\* the Identity arm of convertSourceFunctionToExpression
identity(ty, prop) ==
    CASE ty.t = "String" -> Ok(string(get(literal(S(prop)))))
      [] ty.t = "Number" -> Ok(number(get(literal(S(prop)))))
      [] ty.t = "Boolean" -> Ok(boolean(get(literal(S(prop)))))
      [] ty.t = "Color" -> Ok(toColor(get(literal(S(prop)))))
      [] ty.t = "Array" -> Ok(ArrayAssertion(ty, get(literal(S(prop)))))
      [] OTHER -> Unreachable

\* faulty variant: every inferred domain accepts every shape but Identity and Invalid
compositeKeyType_AnyShape(d, ft) ==
    CASE ft = "Categorical" ->
            Ok(CASE d = "bool" -> "bool" [] d = "number" -> "int64" [] OTHER -> "string")
      [] ft \in {"Interval", "Exponential"} ->
            Ok(CASE d = "bool" -> "bool" [] d = "number" -> "double" [] OTHER -> "string")
      [] OTHER -> Err("unsupported function type")

\* the switch of convertCompositeFunctionToExpression: the T of composite<T>
compositeKeyType(d, ft) ==
    CASE d = "bool" /\ ft = "Categorical" -> Ok("bool")
      [] d = "number" /\ ft \in {"Interval", "Exponential"} -> Ok("double")
      [] d = "number" /\ ft = "Categorical" -> Ok("int64")
      [] d = "string" /\ ft = "Categorical" -> Ok("string")
      [] OTHER -> Err("unsupported function type")

\* convertCompositeFunctionToExpression up to its switch: the inferred inner domain
compositeDomain(x) ==
    LET h == stopsHeader(x) IN
    IF ~h.ok THEN h
    ELSE LET first == arrayMember(h.val, 0)
             sh == stopShape(first)
         IN IF ~sh.ok THEN sh
            ELSE LET stop == arrayMember(first, 0) IN
                 IF ~isObject(stop) THEN Err("stop must be an object")
                 ELSE LET sourceValue == objectMember(stop, "value") IN
                      IF ~Has(sourceValue) THEN Err("stop must specify value")
                      ELSE LET d == inferDomain(Get(sourceValue)) IN
                           IF d = "none"
                           THEN Err("stop domain value must be a number, string, or boolean")
                           ELSE Ok(d)

\* faulty variant: the base is left unread, as in the camera and source converters
compositeHeader_BaseUnread(x) ==
    LET propertyValue == objectMember(x, "property") IN
    IF ~Has(propertyValue) THEN Err("function must specify property")
    ELSE LET propertyString == toString(Get(propertyValue)) IN
         IF ~Has(propertyString) THEN Err("function property must be a string")
         ELSE Ok(<<10, Get(propertyString)>>)

\* composite<T> before its loop: the property, the base, the property string
compositeHeader(x) ==
    LET propertyValue == objectMember(x, "property") IN
    IF ~Has(propertyValue) THEN Err("function must specify property")
    ELSE LET b == convertBase(x) IN
         IF ~b.ok THEN b
         ELSE LET propertyString == toString(Get(propertyValue)) IN
              IF ~Has(propertyString) THEN Err("function property must be a string")
              ELSE Ok(<<b.val, Get(propertyString)>>)

\* one iteration of the loop of composite<T>, up to the emplace
compositeStop(T, ty, stopValue) ==
    LET sh == stopShape(stopValue) IN
    IF ~sh.ok THEN sh
    ELSE LET stopInput == arrayMember(stopValue, 0) IN
         IF ~isObject(stopInput) THEN Err("stop input must be an object")
         ELSE LET zoomValue == objectMember(stopInput, "zoom")
                  sourceValue == objectMember(stopInput, "value")
              IN IF ~Has(zoomValue) THEN Err("stop input must specify zoom")
                 ELSE IF ~Has(sourceValue) THEN Err("stop input must specify value")
                 ELSE LET z == convertFloat(Get(zoomValue)) IN
                      IF ~z.ok THEN z
                      ELSE LET d == convertKey(T, Get(sourceValue)) IN
                           IF ~d.ok THEN d
                           ELSE LET r == convertLiteral(ty, arrayMember(stopValue, 1)) IN
                                IF ~r.ok THEN r
                                ELSE Ok(<<z.val, d.val, r.val>>)

\* the makeInnerExpression lambda chosen by the switch
makeInnerExpression(ft, T, ty, b, prop, m) ==
    CASE ft = "Interval" -> Ok(step(ty, number(get(literal(S(prop)))), m))
      [] ft = "Exponential" ->
            interpolate(ty, exponential(b), number(get(literal(S(prop)))), m)
      [] OTHER -> Ok(categorical(T, ty, prop, m))

\* the null std::unique_ptr a release build returns after a failed assert
NullExpr == [e |-> "null"]

\* the second loop of composite<T>: one outer stop per zoom bucket, in map order
RECURSIVE outerStops(_, _, _, _, _, _, _, _)
outerStops(ft, T, ty, b, prop, m, n, acc) ==
    IF n > Len(m) THEN acc
    ELSE LET inner == makeInnerExpression(ft, T, ty, b, prop, m[n][2]) IN
         outerStops(ft, T, ty, b, prop, m, n + 1,
                    Emplace("double", acc, m[n][1],
                            IF inner.ok THEN inner.val ELSE NullExpr))

\* the tail of composite<T>: interpolation over zoom, or a step
compositeWrap(ty, m) ==
    IF interpolatable(ty) THEN interpolate(ty, linear, zoom, m)
    ELSE Ok(step(ty, zoom, m))

----------------------------------------------------------------------------
(* The inputs drawn: target types and configuration values *)

Entries == {"camera", "source", "composite"}

AllTypes == {NumberT, BooleanT, StringT, ColorT, ValueT,
             ArrayT(NumberT, Some(2)), ArrayT(NumberT, None), ArrayT(StringT, None)}

\* the target types drawn together with arrays of two and more stops
StopTypes == {NumberT, StringT}

\* the "type" member: absent, the four names, another string, a non-string
TypeMembers == {None, Some(S("interval")), Some(S("exponential")), Some(S("categorical")),
                Some(S("identity")), Some(S("x")), Some(N(10))}
StopTypeMembers == {None, Some(S("interval")), Some(S("exponential")), Some(S("categorical"))}

PropertyMembers == {None, Some(S("p")), Some(N(10))}
BaseMembers == {None, Some(N(20)), Some(S("x"))}

\* an object from its optional members
Object(tm, pm, bm, sm) ==
    LET present == {n \in {"type", "property", "base", "stops"} :
                       Has(CASE n = "type" -> tm [] n = "property" -> pm
                             [] n = "base" -> bm [] OTHER -> sm)}
    IN O([n \in present |->
             Get(CASE n = "type" -> tm [] n = "property" -> pm
                   [] n = "base" -> bm [] OTHER -> sm)])

\* a stop output the target type accepts; the stop's position n makes it distinct
GoodOut(ty, n) ==
    CASE ty.t = "Number" -> N(10 * n)
      [] ty.t = "Boolean" -> B(n % 2 = 1)
      [] ty.t = "String" -> S(ToString(n))
      [] ty.t = "Color" -> S(IF n % 2 = 1 THEN "red" ELSE "blue")
      [] ty.t = "Array" /\ ty.itemType = NumberT -> A(<<N(10 * n), N(0)>>)
      [] ty.t = "Array" -> A(<<S(ToString(n))>>)
      [] OTHER -> N(10 * n)

\* stop outputs the target type refuses
BadOuts(ty) ==
    CASE ty.t = "Number" -> <<S("x")>>
      [] ty.t = "Boolean" -> <<N(10)>>
      [] ty.t = "String" -> <<N(10)>>
      [] ty.t = "Color" -> <<N(10), S("x")>>
      [] ty.t = "Array" /\ ty.itemType = NumberT ->
            <<N(10), A(<<N(10)>>), A(<<N(10), S("x")>>), A(<<S("x"), S("x")>>)>>
      [] ty.t = "Array" -> <<N(10), A(<<N(10)>>)>>
      [] OTHER -> <<>>

\* the stop keys of each domain
DomainKeys(d) ==
    CASE d = "bool" -> {B(TRUE), B(FALSE)}
      [] d = "number" -> {N(0), N(10), N(15)}
      [] OTHER -> {S("a"), S("b")}

\* a key of another domain
ForeignKey(d) == CASE d = "bool" -> N(10) [] d = "number" -> S("a") [] OTHER -> B(TRUE)

Domains == {"bool", "number", "string"}
Zooms == {N(0), N(50)}

\* A stop is drawn as a symbol: its form, its key, and its output (0: an output
\* the type accepts, n > 0: the n-th output it refuses).
Sym(form, key, out) == [form |-> form, key |-> key, out |-> out]

ZoomValue(z, v) == O([n \in {"zoom", "value"} |-> IF n = "zoom" THEN z ELSE v])

\* well-formed stops of domain d
GoodSyms(en, d) ==
    IF en = "composite"
    THEN {Sym("pair", ZoomValue(z, v), 0) : z \in Zooms, v \in DomainKeys(d) \ {N(0)}}
    ELSE {Sym("pair", key, 0) : key \in DomainKeys(d)}

\* malformed stops: a wrong key, a wrong output, a stop that is no pair
BadSyms(en, d, nBadOuts) ==
    {Sym("scalar", Null, 0), Sym("short", Null, 0)}
    \cup (IF en = "composite"
          THEN {Sym("pair", key, 0) :
                    key \in {ZoomValue(N(0), ForeignKey(d)), ZoomValue(N(0), Null),
                             ZoomValue(S("x"), CHOOSE v \in DomainKeys(d) : TRUE),
                             O([n \in {"value"} |-> CHOOSE v \in DomainKeys(d) : TRUE]),
                             O([n \in {"zoom"} |-> N(0)]),
                             N(0)}}
               \cup {Sym("pair", ZoomValue(N(0), CHOOSE v \in DomainKeys(d) \ {N(0)} : TRUE), n) :
                        n \in 1..nBadOuts}
          ELSE {Sym("pair", key, 0) : key \in {ForeignKey(d), Null}}
               \cup {Sym("pair", CHOOSE v \in DomainKeys(d) : TRUE, n) : n \in 1..nBadOuts})

\* the stop a symbol stands for at position n of the array
Realize(sym, ty, n) ==
    CASE sym.form = "scalar" -> N(10)
      [] sym.form = "short" -> A(<<N(0)>>)
      [] OTHER -> A(<<sym.key, IF sym.out = 0 THEN GoodOut(ty, n) ELSE BadOuts(ty)[sym.out]>>)

RealizeAll(syms, ty) == A([n \in 1..Len(syms) |-> Realize(syms[n], ty, n)])

\* arrays of len stops of domain d with at most one malformed stop, anywhere
SymSeqs(en, d, len, nBadOuts) ==
    LET good == GoodSyms(en, d)
        bad == BadSyms(en, d, nBadOuts)
    IN [1..len -> good]
       \cup {[n \in 1..len |-> IF n = at THEN b ELSE g[n]] :
                at \in 1..len, b \in bad, g \in [1..len -> good]}

\* "stops" absent, not an array, empty, or one stop of any kind the type knows
HeaderStops(en, ty) ==
    {None, Some(N(10)), Some(A(<<>>))}
    \cup {Some(RealizeAll(syms, ty)) :
             syms \in UNION {SymSeqs(en, d, 1, Len(BadOuts(ty))) : d \in Domains}}

\* arrays of two and more stops
LongStops(en, ty) ==
    {Some(RealizeAll(syms, ty)) :
        syms \in UNION {SymSeqs(en, d, len, 1) : d \in Domains, len \in 2..MaxStops}}

\* every member varied, at most one stop
HeaderInput ==
    \E en \in Entries, ty \in AllTypes, tm \in TypeMembers,
       pm \in PropertyMembers, bm \in BaseMembers :
        \E sm \in HeaderStops(en, ty) :
            /\ entry = en
            /\ type = ty
            /\ value = Object(tm, pm, bm, sm)

\* two and more stops, the property named
StopInput ==
    \E en \in Entries, ty \in StopTypes, tm \in StopTypeMembers, bm \in BaseMembers :
        \E sm \in LongStops(en, ty) :
            /\ entry = en
            /\ type = ty
            /\ value = Object(tm, Some(S("p")), bm, sm)

\* a configuration that is no object
ScalarInput ==
    \E en \in Entries, ty \in AllTypes :
        /\ entry = en
        /\ type = ty
        /\ value = N(10)

----------------------------------------------------------------------------
Init ==
    /\ (HeaderInput \/ StopInput \/ ScalarInput)
    /\ pc = "start"
    /\ i = 0
    /\ shape = "none"
    /\ keyT = "none"
    /\ stops = <<>>
    /\ base = None
    /\ property = None
    /\ error = None
    /\ result = None

----------------------------------------------------------------------------
(* How a call ends *)

\* error = { msg }; return {};
Fail(msg) ==
    /\ pc' = "done"
    /\ error' = Some(msg)
    /\ result' = None

\* return expression;
Return(ex) ==
    /\ pc' = "done"
    /\ result' = Some(ex)
    /\ UNCHANGED error

\* assert(false); return {};  a debug build aborts, a release build returns
\* nothing and leaves the Error sink alone
AssertFalse ==
    /\ pc' \in {"aborted", "done"}
    /\ result' = None
    /\ UNCHANGED error

\* the outcome of a failed check r
Reject(r) == IF r.assert THEN AssertFalse ELSE Fail(r.err)

\* the expression a function reads: the zoom, or the named property as a number
functionInput ==
    IF entry = "camera" THEN zoom ELSE number(get(literal(S(Get(property)))))

stopsValue == Get(objectMember(value, "stops"))

----------------------------------------------------------------------------
(* The entry points, up to the first stop loop *)

\* convertIntervalFunction / convertExponentialFunction entering convertStops
EnterConvertStops ==
    LET h == stopsHeader(value) IN
    IF h.ok
    THEN /\ pc' = "convertStops"
         /\ UNCHANGED <<error, result>>
    ELSE Fail(h.err)

\* faulty variant: a function type the camera cannot use is treated as Interval
CameraStart_NoDefault ==
    /\ pc = "start"
    /\ entry = "camera"
    /\ UNCHANGED <<entry, type, value, i, keyT, stops, base, property>>
    /\ IF ~isObject(value)
       THEN /\ Fail("function must be an object")
            /\ UNCHANGED shape
       ELSE /\ shape' = functionType(type, value)
            /\ EnterConvertStops

CameraStart ==
    /\ pc = "start"
    /\ entry = "camera"
    /\ UNCHANGED <<entry, type, value, i, keyT, stops, base, property>>
    /\ IF ~isObject(value)
       THEN /\ Fail("function must be an object")
            /\ UNCHANGED shape
       ELSE LET ft == functionType(type, value) IN
            /\ shape' = ft
            /\ IF ft \in {"Interval", "Exponential"}
               THEN EnterConvertStops
               ELSE Fail("unsupported function type")

\* faulty variant: the Identity arm asks for stops like the other shapes
SourceStart_IdentityNeedsStops ==
    /\ pc = "start"
    /\ entry = "source"
    /\ UNCHANGED <<entry, type, value, i, stops, base>>
    /\ IF ~isObject(value)
       THEN /\ Fail("function must be an object")
            /\ UNCHANGED <<shape, keyT, property>>
       ELSE IF ~Has(objectMember(value, "property"))
       THEN /\ Fail("function must specify property")
            /\ UNCHANGED <<shape, keyT, property>>
       ELSE IF ~Has(toString(Get(objectMember(value, "property"))))
       THEN /\ Fail("function property must be a string")
            /\ UNCHANGED <<shape, keyT, property>>
       ELSE LET ft == functionType(type, value)
                prop == toString(Get(objectMember(value, "property")))
            IN /\ shape' = ft
               /\ property' = prop
               /\ IF ft \in {"Interval", "Exponential", "Identity"}
                  THEN /\ EnterConvertStops
                       /\ UNCHANGED keyT
                  ELSE IF ft = "Categorical"
                  THEN LET kt == categoricalKeyType(value) IN
                       IF kt.ok
                       THEN /\ keyT' = kt.val
                            /\ pc' = "convertBranches"
                            /\ UNCHANGED <<error, result>>
                       ELSE /\ Fail(kt.err)
                            /\ UNCHANGED keyT
                  ELSE /\ Fail("unsupported function type")
                       /\ UNCHANGED keyT

SourceStart ==
    /\ pc = "start"
    /\ entry = "source"
    /\ UNCHANGED <<entry, type, value, i, stops, base>>
    /\ IF ~isObject(value)
       THEN /\ Fail("function must be an object")
            /\ UNCHANGED <<shape, keyT, property>>
       ELSE IF ~Has(objectMember(value, "property"))
       THEN /\ Fail("function must specify property")
            /\ UNCHANGED <<shape, keyT, property>>
       ELSE IF ~Has(toString(Get(objectMember(value, "property"))))
       THEN /\ Fail("function property must be a string")
            /\ UNCHANGED <<shape, keyT, property>>
       ELSE LET ft == functionType(type, value)
                prop == toString(Get(objectMember(value, "property")))
            IN /\ shape' = ft
               /\ property' = prop
               /\ IF ft \in {"Interval", "Exponential"}
                  THEN /\ EnterConvertStops
                       /\ UNCHANGED keyT
                  ELSE IF ft = "Categorical"
                  THEN LET kt == categoricalKeyType(value) IN
                       IF kt.ok
                       THEN /\ keyT' = kt.val
                            /\ pc' = "convertBranches"
                            /\ UNCHANGED <<error, result>>
                       ELSE /\ Fail(kt.err)
                            /\ UNCHANGED keyT
                  ELSE IF ft = "Identity"
                  THEN LET r == identity(type, Get(prop)) IN
                       /\ (IF r.ok THEN Return(r.val) ELSE AssertFalse)
                       /\ UNCHANGED keyT
                  ELSE /\ Fail("unsupported function type")
                       /\ UNCHANGED keyT

CompositeStart ==
    /\ pc = "start"
    /\ entry = "composite"
    /\ UNCHANGED <<entry, type, value, i, stops>>
    /\ IF ~isObject(value)
       THEN /\ Fail("function must be an object")
            /\ UNCHANGED <<shape, keyT, base, property>>
       ELSE LET d == compositeDomain(value) IN
            IF ~d.ok
            THEN /\ Fail(d.err)
                 /\ UNCHANGED <<shape, keyT, base, property>>
            ELSE LET ft == functionType(type, value)
                     kt == compositeKeyType(d.val, ft)
                 IN /\ shape' = ft
                    /\ IF ~kt.ok
                       THEN /\ Fail(kt.err)
                            /\ UNCHANGED <<keyT, base, property>>
                       ELSE LET h == compositeHeader(value) IN
                            /\ keyT' = kt.val
                            /\ IF ~h.ok
                               THEN /\ Fail(h.err)
                                    /\ UNCHANGED <<base, property>>
                               ELSE /\ base' = Some(h.val[1])
                                    /\ property' = Some(h.val[2])
                                    /\ pc' = "composite"
                                    /\ UNCHANGED <<error, result>>

----------------------------------------------------------------------------
(* The stop loops, one iteration a step *)

\* faulty variant: a malformed stop is skipped and the loop goes on
ConvertStopsStep_SkipsBadStop ==
    /\ pc = "convertStops"
    /\ i < arrayLength(stopsValue)
    /\ UNCHANGED <<entry, type, value, shape, keyT, base, property>>
    /\ LET r == convertStop("float", type, arrayMember(stopsValue, i)) IN
       IF r.ok
       THEN /\ stops' = Emplace("double", stops, r.val[1], r.val[2])
            /\ i' = i + 1
            /\ UNCHANGED <<pc, error, result>>
       ELSE /\ error' = Some(r.err)
            /\ i' = i + 1
            /\ UNCHANGED <<pc, stops, result>>

\* the loop of convertStops
ConvertStopsStep ==
    /\ pc = "convertStops"
    /\ i < arrayLength(stopsValue)
    /\ UNCHANGED <<entry, type, value, shape, keyT, base, property>>
    /\ LET r == convertStop("float", type, arrayMember(stopsValue, i)) IN
       IF r.ok
       THEN /\ stops' = Emplace("double", stops, r.val[1], r.val[2])
            /\ i' = i + 1
            /\ UNCHANGED <<pc, error, result>>
       ELSE /\ Reject(r)
            /\ stops' = <<>>
            /\ UNCHANGED i

\* the loop of convertBranches<T>
ConvertBranchesStep ==
    /\ pc = "convertBranches"
    /\ i < arrayLength(stopsValue)
    /\ UNCHANGED <<entry, type, value, shape, keyT, base, property>>
    /\ LET r == convertStop(keyT, type, arrayMember(stopsValue, i)) IN
       IF r.ok
       THEN /\ stops' = Emplace(keyT, stops, r.val[1], r.val[2])
            /\ i' = i + 1
            /\ UNCHANGED <<pc, error, result>>
       ELSE /\ Reject(r)
            /\ stops' = <<>>
            /\ UNCHANGED i

\* the first loop of composite<T>
CompositeStep ==
    /\ pc = "composite"
    /\ i < arrayLength(stopsValue)
    /\ UNCHANGED <<entry, type, value, shape, keyT, base, property>>
    /\ LET r == compositeStop(keyT, type, arrayMember(stopsValue, i)) IN
       IF r.ok
       THEN /\ stops' = NestedEmplace(keyT, stops, r.val[1], r.val[2], r.val[3])
            /\ i' = i + 1
            /\ UNCHANGED <<pc, error, result>>
       ELSE /\ Reject(r)
            /\ stops' = <<>>
            /\ UNCHANGED i

----------------------------------------------------------------------------
(* After the loops: the expression is built and the map moved into it *)

\* convertIntervalFunction after convertStops
IntervalReturn ==
    /\ pc = "convertStops"
    /\ shape = "Interval"
    /\ i = arrayLength(stopsValue)
    /\ Return(step(type, functionInput, stops))
    /\ stops' = <<>>
    /\ UNCHANGED <<entry, type, value, i, shape, keyT, base, property>>

\* convertExponentialFunction after convertStops
ExponentialReturn ==
    /\ pc = "convertStops"
    /\ shape = "Exponential"
    /\ i = arrayLength(stopsValue)
    /\ stops' = <<>>
    /\ UNCHANGED <<entry, type, value, i, shape, keyT, property>>
    /\ LET b == convertBase(value) IN
       IF ~b.ok
       THEN /\ Fail(b.err)
            /\ UNCHANGED base
       ELSE LET r == interpolate(type, exponential(b.val), functionInput, stops) IN
            /\ base' = Some(b.val)
            /\ IF r.ok THEN Return(r.val)
               ELSE /\ pc' \in {"aborted", "done"}
                    /\ result' = IF pc' = "done" THEN Some(NullExpr) ELSE None
                    /\ UNCHANGED error

\* convertCategoricalFunction after convertBranches<T>
CategoricalReturn ==
    /\ pc = "convertBranches"
    /\ i = arrayLength(stopsValue)
    /\ Return(categorical(keyT, type, Get(property), stops))
    /\ stops' = <<>>
    /\ UNCHANGED <<entry, type, value, i, shape, keyT, base, property>>

\* composite<T> after its first loop
CompositeReturn ==
    /\ pc = "composite"
    /\ i = arrayLength(stopsValue)
    /\ stops' = <<>>
    /\ UNCHANGED <<entry, type, value, i, shape, keyT, base, property>>
    /\ LET outer == outerStops(shape, keyT, type, Get(base), Get(property), stops, 1, <<>>)
           r == compositeWrap(type, outer)
       IN IF r.ok THEN Return(r.val)
          ELSE /\ pc' \in {"aborted", "done"}
               /\ result' = IF pc' = "done" THEN Some(NullExpr) ELSE None
               /\ UNCHANGED error

----------------------------------------------------------------------------
Next ==
    \/ CameraStart
    \/ SourceStart
    \/ CompositeStart
    \/ ConvertStopsStep
    \/ ConvertBranchesStep
    \/ CompositeStep
    \/ IntervalReturn
    \/ ExponentialReturn
    \/ CategoricalReturn
    \/ CompositeReturn

Spec == Init /\ [][Next]_vars

----------------------------------------------------------------------------
(* Vocabulary of the properties *)

NoStopsMember == isObject(value) /\ ~Has(objectMember(value, "stops"))
HasStopsArray == isObject(value) /\ stopsHeader(value).ok
NumStops == arrayLength(stopsValue)
StopAt(j) == arrayMember(stopsValue, j)
Running == pc \in {"convertStops", "convertBranches", "composite"}
TypeName == IF Has(objectMember(value, "type")) THEN toString(Get(objectMember(value, "type")))
            ELSE None

\* the key type the running loop parses keys with
LoopKeyType == IF pc = "convertStops" THEN "float" ELSE keyT

\* key and literal of the simple stop j, zoom of the composite stop j
KeyOf(T, j) == convertKey(T, arrayMember(StopAt(j), 0)).val
LiteralOf(j) == convertLiteral(type, arrayMember(StopAt(j), 1)).val
ZoomOf(j) == Get(toNumber(Get(objectMember(arrayMember(StopAt(j), 0), "zoom"))))
InnerKeyOf(T, j) == convertKey(T, Get(objectMember(arrayMember(StopAt(j), 0), "value"))).val

\* the entries of a map as a set of <<key, value>> pairs
Pairs(m) == {<<m[n][1], m[n][2]>> : n \in 1..Len(m)}
UniqueKeys(m) == \A n1, n2 \in 1..Len(m) : m[n1][1] = m[n2][1] => n1 = n2

----------------------------------------------------------------------------
\* C1: whenever the classifier has run, the shape it returned is the one the
\* "type" member and the target type determine: no member gives Exponential
\* for Number, Color and fixed-length Number arrays and Interval otherwise;
\* "interval", "categorical", "identity" give their shape; "exponential"
\* gives Exponential for those same types and Invalid otherwise; every other
\* string and every non-string member give Invalid.
ClassifierContract ==
    shape # "none" =>
        LET interp == \/ type.t \in {"Number", "Color"}
                      \/ (type.t = "Array" /\ type.itemType.t = "Number" /\ type.N # <<>>)
            member == objectMember(value, "type")
        IN shape =
            (IF member = <<>> THEN (IF interp THEN "Exponential" ELSE "Interval")
             ELSE IF member[1].k # "str" THEN "Invalid"
             ELSE IF member[1].v = "interval" THEN "Interval"
             ELSE IF member[1].v = "exponential"
                  THEN (IF interp THEN "Exponential" ELSE "Invalid")
             ELSE IF member[1].v = "categorical" THEN "Categorical"
             ELSE IF member[1].v = "identity" THEN "Identity"
             ELSE "Invalid")

\* C1 witness: "exponential" asked of a String target was classified Invalid.
ClassifierWitness ==
    /\ shape = "Invalid"
    /\ type = StringT
    /\ TypeName = Some("exponential")

----------------------------------------------------------------------------
\* the first stop below i whose key is key (and, for composite, whose zoom is z)
FirstWith(T, key) ==
    CHOOSE j \in 0..(i - 1) :
        /\ KeyOf(T, j) = key
        /\ \A j2 \in 0..(j - 1) : KeyOf(T, j2) # key

FirstWithZoom(T, z, key) ==
    CHOOSE j \in 0..(i - 1) :
        /\ ZoomOf(j) = z /\ InnerKeyOf(T, j) = key
        /\ \A j2 \in 0..(j - 1) : ~(ZoomOf(j2) = z /\ InnerKeyOf(T, j2) = key)

\* C2: after any prefix of i stops, in each of the three loops, the Stop Map
\* has unique keys, holds a key exactly when a stop of the prefix carried it,
\* and holds for it the literal of the first such stop.
FirstStopWins ==
    /\ pc \in {"convertStops", "convertBranches"} =>
          LET T == LoopKeyType IN
          /\ UniqueKeys(stops)
          /\ MapKeys(stops) = {KeyOf(T, j) : j \in 0..(i - 1)}
          /\ \A n \in 1..Len(stops) :
                stops[n][2] = LiteralOf(FirstWith(T, stops[n][1]))
    /\ pc = "composite" =>
          /\ UniqueKeys(stops)
          /\ MapKeys(stops) = {ZoomOf(j) : j \in 0..(i - 1)}
          /\ \A b \in 1..Len(stops) :
                LET z == stops[b][1]
                    inner == stops[b][2]
                IN /\ UniqueKeys(inner)
                   /\ MapKeys(inner) =
                         {InnerKeyOf(keyT, j) : j \in {j2 \in 0..(i - 1) : ZoomOf(j2) = z}}
                   /\ \A n \in 1..Len(inner) :
                         inner[n][2] = LiteralOf(FirstWithZoom(keyT, z, inner[n][1]))

\* C2 witness: three stops were read in the integer domain, the second
\* repeating the key of the first with another literal, and two keys are held.
FirstStopWinsWitness ==
    /\ pc = "convertBranches"
    /\ keyT = "int64"
    /\ i = 3
    /\ KeyOf("int64", 0) = KeyOf("int64", 1)
    /\ LiteralOf(0) # LiteralOf(1)
    /\ Len(stops) = 2

----------------------------------------------------------------------------
StopsError == Some("function value must specify stops")
UnsupportedError == Some("unsupported function type")
HasStringProperty ==
    /\ Has(objectMember(value, "property"))
    /\ Get(objectMember(value, "property")).k = "str"

\* C3 as stated: a finished call on an object without "stops", whatever the
\* entry point and whichever of the four shapes the classifier returns, has
\* failed with "function value must specify stops" (a source function is
\* given the string "property" it needs, a target type is one of the schema).
MissingStopsAlwaysReported ==
    (/\ pc = "done"
     /\ type # ValueT
     /\ NoStopsMember
     /\ entry = "source" => HasStringProperty
     /\ functionType(type, value) \in {"Interval", "Exponential", "Categorical", "Identity"})
    => error = StopsError

\* C3 amended: on an object without "stops" the composite entry point always
\* fails with "function value must specify stops"; the camera entry point
\* does so for Interval and Exponential and fails with "unsupported function
\* type" for Categorical and Identity; the source entry point, given a string
\* "property", does so for Interval, Exponential and Categorical, while an
\* Identity function needs no stops and returns its property read.
MissingStopsOutcome ==
    (pc = "done" /\ NoStopsMember) =>
        LET ft == functionType(type, value) IN
        CASE entry = "composite" -> error = StopsError /\ result = None
          [] entry = "camera" ->
                /\ result = None
                /\ error = IF ft \in {"Interval", "Exponential"} THEN StopsError
                           ELSE UnsupportedError
          [] entry = "source" /\ HasStringProperty ->
                IF ft \in {"Interval", "Exponential", "Categorical"}
                THEN error = StopsError /\ result = None
                ELSE IF ft = "Identity"
                THEN type # ValueT =>
                        /\ error = None
                        /\ Has(result)
                        /\ Get(result).arg = get(literal(Get(objectMember(value, "property"))))
                ELSE error = UnsupportedError /\ result = None
          [] OTHER -> error \in {Some("function must specify property"),
                                 Some("function property must be a string")}

\* C3 witness: a source Categorical function with a property and no "stops"
\* has failed with the stops message.
MissingStopsWitness ==
    /\ pc = "done"
    /\ entry = "source"
    /\ NoStopsMember
    /\ HasStringProperty
    /\ shape = "Categorical"
    /\ error = StopsError

----------------------------------------------------------------------------
FirstKey == arrayMember(StopAt(0), 0)
IsPair(x) == x.k = "arr" /\ Len(x.v) = 2

\* C4: in a source Categorical function whose first stop is a pair, the key
\* type is fixed by the first key alone (boolean, else number, else string,
\* else the domain error); every stop read so far had a key of that kind, and
\* a result is returned only if every stop of the array has one.
CategoricalDomain ==
    (/\ entry = "source"
     /\ shape = "Categorical"
     /\ HasStopsArray
     /\ IsPair(StopAt(0)))
    => /\ CASE FirstKey.k = "bool" -> keyT = "bool"
            [] FirstKey.k = "num" -> keyT = "int64"
            [] FirstKey.k = "str" -> keyT = "string"
            [] OTHER ->
                /\ pc = "done"
                /\ result = None
                /\ error = Some("stop domain value must be a number, string, or boolean")
       /\ pc = "convertBranches" =>
             \A j \in 0..(i - 1) : arrayMember(StopAt(j), 0).k = FirstKey.k
       /\ (pc = "done" /\ Has(result)) =>
             \A j \in 0..(NumStops - 1) :
                IsPair(StopAt(j)) /\ arrayMember(StopAt(j), 0).k = FirstKey.k

\* C4 witness: a first key false selected the boolean domain and a function
\* of two and more stops was converted.
CategoricalDomainWitness ==
    /\ pc = "done"
    /\ entry = "source"
    /\ shape = "Categorical"
    /\ Has(result)
    /\ NumStops >= 2
    /\ FirstKey = B(FALSE)
    /\ keyT = "bool"

----------------------------------------------------------------------------
\* the target types whose values can be interpolated, as the data model lists them
InterpolatableTarget ==
    \/ type.t \in {"Number", "Color"}
    \/ (type.t = "Array" /\ type.itemType.t = "Number" /\ type.N # <<>>)

Fallback == [e |-> "error", message |-> "replaced with default"]

\* the <<key, literal>> pairs an inner expression was built from
InnerPairs(ex) ==
    CASE ex.e \in {"step", "interpolate"} -> Pairs(ex.stops)
      [] ex.e = "match" -> {<<key, ex.branches[key]>> : key \in DOMAIN ex.branches}
      [] ex.e = "case" ->
            {<<TRUE, ex.branches[n][2]>> : n \in {n2 \in 1..Len(ex.branches) :
                                                    ex.branches[n2][2] # Fallback}}
            \cup (IF ex.otherwise # Fallback THEN {<<FALSE, ex.otherwise>>} ELSE {})

\* the stops whose zoom is z, each the first of the array with its inner key
FirstOfBucket(z) ==
    {j \in 0..(NumStops - 1) :
        /\ ZoomOf(j) = z
        /\ \A j2 \in 0..(j - 1) :
              ~(ZoomOf(j2) = z /\ InnerKeyOf(keyT, j2) = InnerKeyOf(keyT, j))}

\* C5: a converted composite function is an interpolation (linear) over zoom
\* for an interpolatable target and a step over zoom otherwise; its outer
\* stops are the distinct zooms of the array in ascending order; and the
\* inner expression of zoom z reads the property and holds exactly the (inner
\* key, literal) pairs of the stops with zoom z, a stop repeating an inner key
\* of its bucket aside (C2).
CompositeBuckets ==
    (pc = "done" /\ entry = "composite" /\ Has(result)) =>
        LET ex == Get(result)
            outer == ex.stops
        IN /\ ex.input = [e |-> "zoom"]
           /\ IF InterpolatableTarget
              THEN ex.e = "interpolate" /\ ex.interpolator.name = "linear"
              ELSE ex.e = "step"
           /\ \A n \in 1..(Len(outer) - 1) : outer[n][1] < outer[n + 1][1]
           /\ MapKeys(outer) = {ZoomOf(j) : j \in 0..(NumStops - 1)}
           /\ \A n \in 1..Len(outer) :
                 /\ InnerPairs(outer[n][2]) =
                       {<<InnerKeyOf(keyT, j), LiteralOf(j)>> : j \in FirstOfBucket(outer[n][1])}
                 /\ outer[n][2].e = CASE shape = "Interval" -> "step"
                                      [] shape = "Exponential" -> "interpolate"
                                      [] keyT = "bool" -> "case"
                                      [] OTHER -> "match"

\* C5 witness: three stops, two of one zoom with distinct inner keys and one
\* of another zoom, gave two buckets, one holding two property stops.
CompositeBucketsWitness ==
    /\ pc = "done"
    /\ entry = "composite"
    /\ Has(result)
    /\ NumStops = 3
    /\ Len(Get(result).stops) = 2
    /\ \E n \in 1..2 : Cardinality(InnerPairs(Get(result).stops[n][2])) = 2

----------------------------------------------------------------------------
\* the "value" member of the first composite stop, once the checks before
\* the domain inference have passed
ReachesDomainInference ==
    /\ entry = "composite"
    /\ pc # "start"
    /\ HasStopsArray
    /\ IsPair(StopAt(0))
    /\ FirstKey.k = "obj"
    /\ "value" \in DOMAIN FirstKey.v

\* C6: the inner domain is the kind of the first stop's "value" (boolean,
\* number, string); boolean and string go on only with Categorical, number
\* only with Interval, Exponential or Categorical; every other pair of domain
\* and shape fails with "unsupported function type", and a value of no
\* domain with the domain error.
CompositeShapes ==
    ReachesDomainInference =>
        LET d == FirstKey.v["value"].k
            ft == functionType(type, value)
        IN IF d \notin {"bool", "num", "str"}
           THEN /\ pc = "done"
                /\ result = None
                /\ error = Some("stop domain value must be a number, string, or boolean")
           ELSE IF \/ (d = "bool" /\ ft = "Categorical")
                   \/ (d = "num" /\ ft \in {"Interval", "Exponential", "Categorical"})
                   \/ (d = "str" /\ ft = "Categorical")
           THEN /\ error # UnsupportedError
                /\ keyT = CASE d = "bool" -> "bool"
                            [] d = "str" -> "string"
                            [] ft = "Categorical" -> "int64"
                            [] OTHER -> "double"
           ELSE /\ pc = "done"
                /\ result = None
                /\ error = UnsupportedError

\* C6 witness: a string domain met the Interval shape and was refused.
CompositeShapesWitness ==
    /\ ReachesDomainInference
    /\ FirstKey.v["value"].k = "str"
    /\ shape = "Interval"
    /\ error = UnsupportedError

----------------------------------------------------------------------------
\* a raw stop output the target type takes, told from the value alone
OutputFits(x) ==
    CASE type.t = "Number" -> x.k = "num"
      [] type.t = "Boolean" -> x.k = "bool"
      [] type.t = "String" -> x.k = "str"
      [] type.t = "Color" -> x.k = "str" /\ x.v \in {"red", "blue"}
      [] type.t = "Array" ->
            /\ x.k = "arr"
            /\ type.N # <<>> => Len(x.v) = type.N[1]
            /\ \A n \in 1..Len(x.v) :
                  x.v[n].k = (IF type.itemType.t = "Number" THEN "num" ELSE "str")
      [] OTHER -> FALSE

\* the kind of raw key the key type T reads
KindOf(T) == CASE T = "bool" -> "bool" [] T = "string" -> "str" [] OTHER -> "num"

\* stop j is one the running (or finished) conversion accepts
WellFormedStop(j) ==
    /\ IsPair(StopAt(j))
    /\ OutputFits(arrayMember(StopAt(j), 1))
    /\ LET key == arrayMember(StopAt(j), 0) IN
       IF entry = "composite"
       THEN /\ key.k = "obj"
            /\ DOMAIN key.v = {"zoom", "value"}
            /\ key.v["zoom"].k = "num"
            /\ key.v["value"].k = KindOf(keyT)
       ELSE IF shape = "Categorical" THEN key.k = KindOf(keyT)
       ELSE key.k = "num"

\* C7: for the target types the schema requests, a call never aborts and
\* ends with an expression and an untouched Error sink, or with nothing and a
\* message; the sink is written only by the step that ends the call; the stop
\* loops run only over well-formed stops, and a result is returned only when
\* every stop of the array is well-formed, so the first malformed stop ends
\* the call with nothing whatever follows it.
OneOutcome ==
    type # ValueT =>
        /\ pc # "aborted"
        /\ Has(error) => (pc = "done" /\ result = None)
        /\ pc # "done" => result = None
        /\ pc = "done" =>
              \/ (Has(result) /\ error = None /\ Get(result) # NullExpr)
              \/ (result = None /\ Has(error))
        /\ Running => \A j \in 0..(i - 1) : WellFormedStop(j)
        /\ (pc = "done" /\ Has(result) /\ shape # "Identity") =>
              /\ HasStopsArray
              /\ \A j \in 0..(NumStops - 1) : WellFormedStop(j)

\* C7 witness: the second of three composite stops was malformed, the first
\* and the third well-formed, and the call ended there with a message only.
OneOutcomeWitness ==
    /\ pc = "done"
    /\ entry = "composite"
    /\ Has(error)
    /\ result = None
    /\ HasStopsArray
    /\ NumStops = 3
    /\ i = 1
    /\ WellFormedStop(0) /\ ~WellFormedStop(1) /\ WellFormedStop(2)

----------------------------------------------------------------------------
PropertyRead == [e |-> "get", arg |-> [e |-> "literal", v |-> Get(objectMember(value, "property"))]]

\* the literal of the first stop among js whose raw key is key, else the fallback
EntryOrFallback(js, key) ==
    LET with == {j \in js : LET k == arrayMember(StopAt(j), 0) IN
                            IF entry = "composite" THEN k.v["value"] = key ELSE k = key}
    IN IF with = {} THEN Fallback
       ELSE LiteralOf(CHOOSE j \in with : \A j2 \in with : j <= j2)

\* the case expression of the boolean domain over the stops js
IsBooleanCase(ex, js) ==
    /\ ex.e = "case"
    /\ Len(ex.branches) = 1
    /\ ex.branches[1][1] = PropertyRead
    /\ ex.branches[1][2] = EntryOrFallback(js, B(TRUE))
    /\ ex.otherwise = EntryOrFallback(js, B(FALSE))

\* C8: a converted categorical function of the boolean domain is a case
\* expression with one branch tested on the property: the branch gives the
\* stop map's entry for true, the default its entry for false, and each is
\* the fallback "replaced with default" when the entry is missing; the same
\* holds of every zoom bucket of a composite function.  In the integer and
\* string domains it is a match on the property over the stop map with that
\* fallback.
CategoricalExpression ==
    /\ (pc = "done" /\ entry = "source" /\ shape = "Categorical" /\ Has(result)) =>
          LET ex == Get(result) IN
          IF keyT = "bool" THEN IsBooleanCase(ex, 0..(NumStops - 1))
          ELSE /\ ex.e = "match"
               /\ ex.input = PropertyRead
               /\ ex.otherwise = Fallback
               /\ DOMAIN ex.branches = {KeyOf(keyT, j) : j \in 0..(NumStops - 1)}
               /\ \A key \in DOMAIN ex.branches :
                     ex.branches[key] = LiteralOf(FirstWith(keyT, key))
    /\ (pc = "done" /\ entry = "composite" /\ keyT = "bool" /\ Has(result)) =>
          \A n \in 1..Len(Get(result).stops) :
             IsBooleanCase(Get(result).stops[n][2],
                           {j \in 0..(NumStops - 1) : ZoomOf(j) = Get(result).stops[n][1]})

\* C8 witness: the stops of a source function carry only the key true, and
\* the default branch of the case built is the fallback.
CategoricalExpressionWitness ==
    /\ pc = "done"
    /\ entry = "source"
    /\ shape = "Categorical"
    /\ keyT = "bool"
    /\ Has(result)
    /\ \A j \in 0..(NumStops - 1) : arrayMember(StopAt(j), 0) = B(TRUE)
    /\ Get(result).otherwise = Fallback
    /\ Get(result).branches[1][2] # Fallback

----------------------------------------------------------------------------
\* the "base" member is absent or a number
BaseFits ==
    ~Has(objectMember(value, "base")) \/ Get(objectMember(value, "base")).k = "num"

\* C9: a finished camera call on a non-object has failed with "function
\* must be an object"; on an object classified Interval it has returned a
\* step over zoom (it does whenever every stop is well-formed), classified
\* Exponential an exponential interpolation over zoom (it does whenever the
\* base fits too), the only other outcome of these two being an error of the
\* stops or the base; classified Categorical, Identity or Invalid it has
\* failed with "unsupported function type".
CameraContract ==
    (pc = "done" /\ entry = "camera" /\ type # ValueT) =>
        IF value.k # "obj"
        THEN result = None /\ error = Some("function must be an object")
        ELSE LET ft == functionType(type, value)
                 valid == HasStopsArray /\ \A j \in 0..(NumStops - 1) : WellFormedStop(j)
             IN CASE ft = "Interval" ->
                       /\ error # UnsupportedError
                       /\ valid <=> Has(result)
                       /\ Has(result) =>
                             /\ Get(result).e = "step"
                             /\ Get(result).input = [e |-> "zoom"]
                  [] ft = "Exponential" ->
                       /\ error # UnsupportedError
                       /\ (valid /\ BaseFits) <=> Has(result)
                       /\ Has(result) =>
                             /\ Get(result).e = "interpolate"
                             /\ Get(result).interpolator.name = "exponential"
                             /\ Get(result).input = [e |-> "zoom"]
                  [] OTHER -> result = None /\ error = UnsupportedError

\* C9 witness: a camera function of type "identity" was refused.
CameraContractWitness ==
    /\ pc = "done"
    /\ entry = "camera"
    /\ TypeName = Some("identity")
    /\ error = UnsupportedError

----------------------------------------------------------------------------
Ascending(m) == \A n \in 1..(Len(m) - 1) : m[n][1] < m[n + 1][1]

\* C10: the map of convertStops is in strictly ascending key order after
\* every insertion, and the map handed to the step expression of an Interval
\* function with distinct keys is the ascending sequence of exactly the
\* (key, literal) pairs of the array: one map, whatever the order of the stops.
AscendingStops ==
    /\ pc = "convertStops" => Ascending(stops)
    /\ (pc = "done" /\ entry # "composite" /\ shape = "Interval" /\ Has(result)) =>
          LET m == Get(result).stops IN
          /\ Ascending(m)
          /\ (\A j1, j2 \in 0..(NumStops - 1) : KeyOf("float", j1) = KeyOf("float", j2) => j1 = j2)
                => Pairs(m) = {<<KeyOf("float", j), LiteralOf(j)>> : j \in 0..(NumStops - 1)}

\* C10 witness: three stops given in descending key order were converted.
AscendingStopsWitness ==
    /\ pc = "done"
    /\ shape = "Interval"
    /\ entry = "camera"
    /\ Has(result)
    /\ NumStops = 3
    /\ KeyOf("float", 0) > KeyOf("float", 1)
    /\ KeyOf("float", 1) > KeyOf("float", 2)
    /\ Len(Get(result).stops) = 3

----------------------------------------------------------------------------
BaseError == Some("function base must be a number")
AllStopsWellFormed == HasStopsArray /\ \A j \in 0..(NumStops - 1) : WellFormedStop(j)

\* C11: a finished Exponential camera or source function whose stops are all
\* well-formed has returned an exponential interpolation whose base is the
\* "base" member when that is a number and 1.0 when there is none, and has
\* failed with "function base must be a number" when the member is no number.
ExponentialBase ==
    (/\ pc = "done"
     /\ entry \in {"camera", "source"}
     /\ shape = "Exponential"
     /\ AllStopsWellFormed)
    => LET member == objectMember(value, "base") IN
       IF member = <<>>
       THEN /\ Has(result)
            /\ Get(result).interpolator = [name |-> "exponential", base |-> 10]
       ELSE IF member[1].k = "num"
       THEN /\ Has(result)
            /\ Get(result).interpolator = [name |-> "exponential", base |-> member[1].v]
       ELSE /\ result = None
            /\ error = BaseError

\* C11 witness: a camera function with "base" 2 was converted with base 2.
ExponentialBaseWitness ==
    /\ pc = "done"
    /\ entry = "camera"
    /\ shape = "Exponential"
    /\ objectMember(value, "base") = Some(N(20))
    /\ Has(result)
    /\ Get(result).interpolator.base = 20

----------------------------------------------------------------------------
\* the raw key of stop j: the first element, or its "value" in a composite stop
RawKeyOf(j) ==
    IF entry = "composite" THEN arrayMember(StopAt(j), 0).v["value"]
    ELSE arrayMember(StopAt(j), 0)

\* the integer part of the number n / 10 written in tenths
IntegerPart(n) == IF n >= 0 THEN n \div 10 ELSE -((-n) \div 10)

\* a match over the stops js of the integer domain: one branch per distinct
\* integer part, holding the literal of the first stop with that integer part
IsTruncatedMatch(ex, js) ==
    /\ ex.e = "match"
    /\ DOMAIN ex.branches = {IntegerPart(RawKeyOf(j).v) : j \in js}
    /\ Cardinality(DOMAIN ex.branches) = Cardinality({IntegerPart(RawKeyOf(j).v) : j \in js})
    /\ \A key \in DOMAIN ex.branches :
          LET with == {j \in js : IntegerPart(RawKeyOf(j).v) = key} IN
          ex.branches[key] = LiteralOf(CHOOSE j \in with : \A j2 \in with : j <= j2)

\* C12: in the integer domain (source Categorical, and composite Categorical
\* with a numeric first value) the branch key of a stop is the integer part
\* of its numeric key, integral or not: the match built has one branch per
\* distinct integer part and holds for it the literal of the first stop with
\* that integer part, so of two stops with keys 1.0 and 1.5 only the first
\* one's output is kept.
TruncatedKeys ==
    /\ (pc \in {"convertBranches", "composite"} /\ keyT = "int64") =>
          \A j \in 0..(i - 1) :
             /\ RawKeyOf(j).k = "num"
             /\ IF entry = "composite"
                THEN MapHas(MapAt(stops, ZoomOf(j)), IntegerPart(RawKeyOf(j).v))
                ELSE MapHas(stops, IntegerPart(RawKeyOf(j).v))
    /\ (pc = "done" /\ entry = "source" /\ keyT = "int64" /\ Has(result)) =>
          IsTruncatedMatch(Get(result), 0..(NumStops - 1))
    /\ (pc = "done" /\ entry = "composite" /\ keyT = "int64" /\ Has(result)) =>
          \A n \in 1..Len(Get(result).stops) :
             IsTruncatedMatch(Get(result).stops[n][2],
                              {j \in 0..(NumStops - 1) : ZoomOf(j) = Get(result).stops[n][1]})

\* C12 witness: a source function with the keys 1.0 and 1.5, in that order,
\* became a match with the single branch 1 holding the first stop's output.
TruncatedKeysWitness ==
    /\ pc = "done"
    /\ entry = "source"
    /\ keyT = "int64"
    /\ Has(result)
    /\ NumStops = 2
    /\ RawKeyOf(0) = N(10)
    /\ RawKeyOf(1) = N(15)
    /\ DOMAIN Get(result).branches = {1}
    /\ Get(result).branches[1] = LiteralOf(0)

----------------------------------------------------------------------------
\* the "base" member is there and is no number
BaseMisfit == isObject(value) /\ ~BaseFits

\* the composite switch has accepted the pair of inner domain and shape
CompositeAccepted ==
    /\ ReachesDomainInference
    /\ LET d == FirstKey.v["value"].k
           ft == functionType(type, value)
       IN \/ (d = "bool" /\ ft = "Categorical")
          \/ (d = "num" /\ ft \in {"Interval", "Exponential", "Categorical"})
          \/ (d = "str" /\ ft = "Categorical")

\* C13: once the composite switch has accepted a shape (Interval and
\* Categorical as well as Exponential) and a "property" member is there, a
\* "base" member that is no number fails the call with "function base must
\* be a number" before the stop loop starts, whatever the later stops hold.
\* The camera and source converters never read "base" for Interval and
\* Categorical: the same member changes nothing, and the function converts
\* whenever its stops are well-formed.
BaseReadByComposite ==
    /\ (CompositeAccepted /\ BaseMisfit /\ Has(objectMember(value, "property"))) =>
          /\ pc = "done"
          /\ result = None
          /\ error = BaseError
          /\ i = 0
    /\ (entry = "composite" /\ pc = "composite") =>
          /\ BaseFits
          /\ base = Some(IF Has(objectMember(value, "base"))
                         THEN Get(objectMember(value, "base")).v ELSE 10)
    /\ (entry \in {"camera", "source"} /\ shape \in {"Interval", "Categorical"}) =>
          /\ base = None
          /\ error # BaseError
          /\ (/\ pc = "done"
              /\ AllStopsWellFormed
              /\ entry = "camera" => shape = "Interval"
              /\ entry = "source" => HasStringProperty) => Has(result)

\* C13 witness: a composite Interval function with a "base" that is no
\* number and a malformed second stop failed on the base.
BaseReadByCompositeWitness ==
    /\ pc = "done"
    /\ entry = "composite"
    /\ shape = "Interval"
    /\ BaseMisfit
    /\ NumStops >= 2
    /\ ~IsPair(StopAt(1))
    /\ error = BaseError

\* the source converter returned an Interval function whose "base" is no number
BaseUnreadBySourceSeen ==
    /\ pc = "done"
    /\ entry = "source"
    /\ shape = "Interval"
    /\ BaseMisfit
    /\ Has(result)
====
